---- MODULE Spec2Model ----
(***************************************************************************)
(* hali-saha bot (src/bot.js): the 'message' handler of the chat client    *)
(* and waitForValidFetch.  One run of the handler per inbound message;     *)
(* runs interleave at their await points.  Strings are sequences of        *)
(* one-character strings; JavaScript indices are 0-based and kept so.      *)
(***************************************************************************)
EXTENDS Integers, Sequences, FiniteSets, TLC

(***************************************************************************)
(* Bounds of the model.                                                    *)
(***************************************************************************)
\* maxRetries of waitForValidFetch; the handler passes the default (100),
\* the model runs the same loop with a small cap.
MaxRetries == 3
\* number of inbound messages (handler runs) of the concurrent specification
NumRuns == 2
\* longest text generated after the link prefix in the extraction bodies
MaxTail == 3

(***************************************************************************)
(* Characters and JavaScript string primitives.                            *)
(***************************************************************************)
SP == " "
TAB == "\t"
NL == "\n"
HASH == "#"

\* the characters String.prototype.trim strips (those the model uses)
Whitespace == {SP, TAB, NL}

Min(S) == CHOOSE x \in S : \A y \in S : x <= y
Max(S) == CHOOSE x \in S : \A y \in S : x >= y

\* sub occurs in s at 0-based position p
OccursAt(s, sub, p) ==
    /\ p >= 0
    /\ p + Len(sub) <= Len(s)
    /\ \A j \in 1..Len(sub) : s[p + j] = sub[j]

\* String.prototype.indexOf(sub, from): first position >= from, or -1
IndexOfFrom0(s, sub, from) ==
    LET hits == {p \in 0..Len(s) : OccursAt(s, sub, p)}
    IN  IF hits = {} THEN -1 ELSE Min(hits)

IndexOf(s, sub, from) ==
    LET f == IF from < 0 THEN 0 ELSE from
        hits == {p \in f..Len(s) : OccursAt(s, sub, p)}
    IN  IF hits = {} THEN -1 ELSE Min(hits)

\* String.prototype.includes(sub)
Includes(s, sub) == \E p \in 0..Len(s) : OccursAt(s, sub, p)

\* String.prototype.substring(a, b): arguments clamped to [0, length] and
\* swapped when a > b
Substring(s, a, b) ==
    LET ca == IF a < 0 THEN 0 ELSE IF a > Len(s) THEN Len(s) ELSE a
        cb == IF b < 0 THEN 0 ELSE IF b > Len(s) THEN Len(s) ELSE b
        lo == IF ca <= cb THEN ca ELSE cb
        hi == IF ca <= cb THEN cb ELSE ca
    IN  SubSeq(s, lo + 1, hi)

\* String.prototype.trim(): whitespace removed at both ends only
Trim(s) ==
    LET keep == {p \in 1..Len(s) : s[p] \notin Whitespace}
    IN  IF keep = {} THEN <<>> ELSE SubSeq(s, Min(keep), Max(keep))

\* String.prototype.split(sep) for a one-character separator: the list of
\* segments between occurrences of sep
RECURSIVE Split(_, _)
Split(s, sep) ==
    LET cut == {p \in 1..Len(s) : s[p] = sep}
    IN  IF cut = {} THEN <<s>>
        ELSE <<SubSeq(s, 1, Min(cut) - 1)>>
                 \o Split(SubSeq(s, Min(cut) + 1, Len(s)), sep)

\* the value of an out-of-range array index
UNDEFINED == <<"undefined">>

\* arr[idx] with a 0-based index
At(arr, idx) == IF idx + 1 \in 1..Len(arr) THEN arr[idx + 1] ELSE UNDEFINED

\* !v for a string or undefined
FalsyUndefinedOnly(v) == v = UNDEFINED

Falsy(v) == v = UNDEFINED \/ v = <<>>

(***************************************************************************)
(* Configuration (bot.js 109-112) and literals of the handler.             *)
(***************************************************************************)
TARGET_CHAT == "hali-saha"
ITEM == "Furkan"

\* 'https://listmoz.com/#'
prefix ==
    <<"h","t","t","p","s",":","/","/","l","i","s","t","m","o","z",".",
      "c","o","m","/","#">>

\* '@g.us'
GroupMark == <<"@","g",".","u","s">>

\* if (!msg.from.includes('@g.us')) return;
IsGroupAtSign(from) == Includes(from, <<"@">>)

IsGroup(from) == Includes(from, GroupMark)

\* if (chat.name !== TARGET_CHAT) return;
ChatMatchesInverted(name) == name # TARGET_CHAT

ChatMatches(name) == name = TARGET_CHAT

\* const startIdx = msg.body.indexOf(prefix);
StartIdxLast(body) ==
    LET hits == {p \in 0..Len(body) : OccursAt(body, prefix, p)}
    IN  IF hits = {} THEN -1 ELSE Max(hits)

StartIdx(body) == IndexOf(body, prefix, 0)

\* const endIdx = msg.body.indexOf(' ', startIdx);
EndIdxAnyWhitespace(body) ==
    LET hits == {p \in StartIdx(body)..(Len(body) - 1) : body[p + 1] \in Whitespace}
    IN  IF hits = {} THEN -1 ELSE Min(hits)

EndIdx(body) == IndexOf(body, <<SP>>, StartIdx(body))

\* const fullUrl = msg.body.substring(startIdx,
\*                   endIdx === -1 ? msg.body.length : endIdx).trim();
FullUrl(body) ==
    Trim(Substring(body, StartIdx(body),
                   IF EndIdx(body) = -1 THEN Len(body) ELSE EndIdx(body)))

\* const modUrl = fullUrl.split('#')[1];
ModUrlOfIndex0(fullUrl) == At(Split(fullUrl, HASH), 0)

ModUrlOf(fullUrl) == At(Split(fullUrl, HASH), 1)

(***************************************************************************)
(* JSON objects of the lookup response: a function over the keys present.  *)
(***************************************************************************)
EmptyObject == [k \in {} |-> <<>>]

\* obj.key, undefined when the key is absent
Get(obj, key) == IF key \in DOMAIN obj THEN obj[key] ELSE UNDEFINED

\* const { read_url, items = [] } = fetchRes;
ItemsOf(fetchRes) == IF "items" \in DOMAIN fetchRes THEN fetchRes["items"] ELSE <<>>

\* items.some(e => e.description === ITEM)
AlreadyExistsAssigned(items) == Len(items) > 0

AlreadyExistsFirstOnly(items) == Len(items) > 0 /\ items[1].description = ITEM

AlreadyExists(items) == \E k \in 1..Len(items) : items[k].description = ITEM

\* const payload = { description: ITEM, force_creation_of_new_list: false,
\*                   mod_url: modUrl, read_url };
PayloadSwapped(modUrl, read_url) ==
    [description |-> ITEM, force_creation_of_new_list |-> FALSE,
     mod_url |-> read_url, read_url |-> modUrl]

Payload(modUrl, read_url) ==
    [description |-> ITEM, force_creation_of_new_list |-> FALSE,
     mod_url |-> modUrl, read_url |-> read_url]

(***************************************************************************)
(* State.  runs[r] holds the locals of the handler invocation for message  *)
(* r (a closure per message) and what that invocation has done; list is    *)
(* the listmoz service's item list per mod_url; listening is whether the   *)
(* process still serves message events.                                    *)
(***************************************************************************)
VARIABLES runs, list, listening

vars == <<runs, list, listening>>

Runs == 1..NumRuns

NoMsg == [from |-> <<>>, body |-> <<>>]

NewRun ==
    [pc |-> "idle",            \* idle, getChat, get, delay, post, done
     msg |-> NoMsg,
     chat |-> "",              \* chat.name once msg.getChat() resolved
     getChatCalls |-> 0,       \* msg.getChat() invocations
     fullUrl |-> UNDEFINED,
     modUrl |-> UNDEFINED,
     i |-> 0,                  \* loop counter of waitForValidFetch
     gets |-> 0,               \* axios.get calls issued
     delays |-> 0,             \* delay(30000) calls issued
     posts |-> <<>>,           \* payloads of the axios.post calls issued
     responses |-> <<>>,       \* outcomes of the axios.get calls, in order:
                               \* "error", "empty" (read_url absent or ''), "ready"
     lastData |-> EmptyObject, \* JSON body of the latest resolved axios.get
     fetchRes |-> EmptyObject, \* value waitForValidFetch returned
     log |-> <<>>,             \* console.log / console.error lines
     result |-> "pending"]     \* return, skipped, enrolled, failed, unhandled

Init ==
    /\ runs = [r \in Runs |-> NewRun]
    /\ list = [m \in {} |-> <<>>]
    /\ listening = TRUE

Log(rec, line) == [rec EXCEPT !.log = Append(@, line)]

\* a plain `return` of the handler before the try block
Return(rec) == [rec EXCEPT !.pc = "done", !.result = "return"]

\* catch (err) { console.error('ERROR: Enrollment failed:', err.message); }
CaughtRetriesPost(rec, message) ==
    IF rec.pc = "post" /\ Len(rec.posts) < 2
    THEN [Log(rec, <<"ERROR: Enrollment failed:", message>>)
            EXCEPT !.posts = Append(@, rec.posts[Len(rec.posts)])]
    ELSE [Log(rec, <<"ERROR: Enrollment failed:", message>>)
            EXCEPT !.pc = "done", !.result = "failed"]

Caught(rec, message) ==
    [Log(rec, <<"ERROR: Enrollment failed:", message>>)
        EXCEPT !.pc = "done", !.result = "failed"]

\* for (...; i < maxRetries; ...)
LoopCondOffByOne(k) == k <= MaxRetries

LoopCond(k) == k < MaxRetries

\* top of the for loop: the next axios.get is issued, or the loop ends and
\* waitForValidFetch throws, which the handler's catch receives
LoopTop(rec) ==
    IF LoopCond(rec.i)
    THEN [rec EXCEPT !.pc = "get", !.gets = @ + 1]
    ELSE Caught(rec, "read_url not found after max retries")

\* await delay(30000);
AwaitDelaySkipped(rec) == LoopTop([rec EXCEPT !.i = @ + 1])

AwaitDelayNotAfterLast(rec) ==
    IF rec.i + 1 < MaxRetries
    THEN [rec EXCEPT !.pc = "delay", !.delays = @ + 1]
    ELSE LoopTop([rec EXCEPT !.i = @ + 1])

AwaitDelay(rec) == [rec EXCEPT !.pc = "delay", !.delays = @ + 1]

\* lines 153-170: the dedup check and the submission, run without an await
\* in between once waitForValidFetch has returned fetchRes
EnrollNoDefault(rec, fetchRes) ==
    LET held == [rec EXCEPT !.fetchRes = fetchRes]
    IN  IF "items" \notin DOMAIN fetchRes
        THEN Caught(held, "Cannot read properties of undefined (reading 'some')")
        ELSE IF AlreadyExists(fetchRes["items"])
        THEN [Log(held, <<"WARNING: Enrollment skipped", ITEM>>)
                EXCEPT !.pc = "done", !.result = "skipped"]
        ELSE [held EXCEPT
                !.pc = "post",
                !.posts = Append(@, Payload(rec.modUrl, Get(fetchRes, "read_url")))]

Enroll(rec, fetchRes) ==
    LET held == [rec EXCEPT !.fetchRes = fetchRes]
    IN  IF AlreadyExists(ItemsOf(fetchRes))
        THEN [Log(held, <<"WARNING: Enrollment skipped", ITEM>>)
                EXCEPT !.pc = "done", !.result = "skipped"]
        ELSE [held EXCEPT
                !.pc = "post",
                !.posts = Append(@, Payload(rec.modUrl, Get(fetchRes, "read_url")))]

\* lines 139-152: after the chat filter, up to the first axios.get
Extract(rec) ==
    IF ~Includes(rec.msg.body, prefix) THEN Return(rec)
    ELSE LET fullUrl == FullUrl(rec.msg.body)
             modUrl == ModUrlOf(fullUrl)
             r1 == [rec EXCEPT !.fullUrl = fullUrl, !.modUrl = modUrl]
         IN  IF Falsy(modUrl) THEN Return(r1)
             ELSE LoopTop(Log(Log(r1, <<"INFO: A new listmoz link has been dropped!", "">>),
                              <<"INFO: Mod URL:", "">>))

(***************************************************************************)
(* Messages the chat client delivers, and what the listmoz service and the *)
(* chat client can answer.                                                 *)
(***************************************************************************)
Str_a == <<"a">>
GroupFrom == <<"1">> \o GroupMark
PrivateFrom == <<"1", "@", "c", ".", "u", "s">>

OTHER_CHAT == "family"
ChatNames == {TARGET_CHAT, OTHER_CHAT, "Hali-Saha"}

\* "check this out https://listmoz.com/#abc123 thanks"
ExampleBody ==
    <<"c","h","e","c","k"," ","t","h","i","s"," ","o","u","t"," ">>
        \o prefix \o <<"a","b","c","1","2","3"," ","t","h","a","n","k","s">>

PlainBody == <<"h", "i">>
LinkBody == prefix \o Str_a
EmptyFragmentBody == prefix \o <<SP, "x">>

\* messages of the concurrent specification: one mod_url, every filter
Messages ==
    {[from |-> PrivateFrom, body |-> LinkBody],
     [from |-> GroupFrom, body |-> PlainBody],
     [from |-> GroupFrom, body |-> EmptyFragmentBody],
     [from |-> GroupFrom, body |-> LinkBody]}

\* bodies of the extraction specification: text, the prefix, a tail
TailChars == {"a", SP, TAB, HASH}
Tails == UNION {[1..n -> TailChars] : n \in 0..MaxTail}
Heads == {<<>>, <<"x", SP>>, <<NL>>, prefix \o <<SP>>}
\* a link with a tab inside, then a space and more text
TabBody == prefix \o <<"a", TAB, "b", SP, "c">>
\* a complete link, a space and a second link
SeveralLinkBodies ==
    {prefix \o <<"b", SP>> \o prefix \o t : t \in {u \in Tails : Len(u) <= 1}}
ExtractBodies ==
    {h \o prefix \o t : h \in Heads, t \in Tails}
        \cup SeveralLinkBodies
        \cup {ExampleBody, PlainBody, TabBody}
ExtractMessages == [from : {GroupFrom}, body : ExtractBodies] \cup Messages

OTHER_ITEM == "Ali"
Entry(d) == [description |-> d]

\* an item list the service may already hold for a mod_url
StoredLists == {<<>>, <<Entry(OTHER_ITEM)>>, <<Entry(OTHER_ITEM), Entry(ITEM)>>}

ReadUrl1 == <<"r", "1">>
ReadUrl2 == <<"r", "2">>
ReadUrls == {ReadUrl1, ReadUrl2}

\* the item list the service holds for mod_url m
Stored(m) == IF m \in DOMAIN list THEN {list[m]} ELSE StoredLists

\* what a resolved lookup carries, as the service sees it
ResponseKind(data) ==
    IF "read_url" \in DOMAIN data /\ data["read_url"] # <<>> THEN "ready" ELSE "empty"

\* JSON bodies the FETCH action may answer, given the stored list: read_url
\* absent, empty or set; items absent (only for an empty list) or present
FetchBodies(items) ==
    LET withItems == {[read_url |-> u, items |-> items] : u \in ReadUrls \cup {<<>>}}
                        \cup {[items |-> items]}
        without == {[read_url |-> u] : u \in ReadUrls \cup {<<>>}} \cup {EmptyObject}
    IN  IF items = <<>> THEN withItems \cup without ELSE withItems

(***************************************************************************)
(* Actions: one per event the handler run of message r waits for.          *)
(***************************************************************************)
SetSharedCounter(r, rec) ==
    runs' = [s \in Runs |-> IF s = r THEN rec ELSE [runs[s] EXCEPT !.i = rec.i]]

\* the locals of a handler invocation belong to that invocation
Set(r, rec) == runs' = [runs EXCEPT ![r] = rec]

\* client.on('message', async (msg) => { ... up to `await msg.getChat()`
OnMessage(r, m) ==
    /\ listening
    /\ runs[r].pc = "idle"
    /\ LET rec == [runs[r] EXCEPT !.msg = m]
       IN  IF ~IsGroup(m.from)
           THEN Set(r, Return(rec))
           ELSE Set(r, [rec EXCEPT !.pc = "getChat", !.getChatCalls = @ + 1])
    /\ UNCHANGED <<list, listening>>

\* msg.getChat() resolves with a chat named `name`: lines 137-152
GetChatResolves(r, name) ==
    /\ listening
    /\ runs[r].pc = "getChat"
    /\ LET rec == [runs[r] EXCEPT !.chat = name]
       IN  IF ~ChatMatches(name)
           THEN Set(r, Return(rec))
           ELSE Set(r, Extract(rec))
    /\ UNCHANGED <<list, listening>>

\* msg.getChat() rejects: the await at line 136 is outside the try block,
\* so the handler's promise rejects with nobody to receive it.  Whether the
\* process survives an unhandled rejection depends on the Node.js version
\* and flags: both outcomes are kept.
GetChatRejects(r) ==
    /\ listening
    /\ runs[r].pc = "getChat"
    /\ Set(r, [runs[r] EXCEPT !.pc = "done", !.result = "unhandled"])
    /\ listening' \in BOOLEAN
    /\ UNCHANGED list

\* axios.get resolves with JSON body `data`: lines 185-187, then 191 or,
\* through the return, 153-170
GetResolves(r, data) ==
    /\ listening
    /\ runs[r].pc = "get"
    /\ \E items \in Stored(runs[r].modUrl) :
          /\ data \in FetchBodies(items)
          /\ list' = (runs[r].modUrl :> items) @@ list
    /\ LET rec == [runs[r] EXCEPT
                     !.responses = Append(@, ResponseKind(data)),
                     !.lastData = data]
       IN  IF ~Falsy(Get(data, "read_url"))
           THEN Set(r, Enroll(rec, data))
           ELSE Set(r, AwaitDelay(Log(rec, <<"WARNING: read_url not found, retrying", "">>)))
    /\ UNCHANGED listening

\* axios.get rejects (network or HTTP error): lines 188-191
GetRejectsUncounted(r) ==
    /\ listening
    /\ runs[r].pc = "get"
    /\ runs[r].gets <= MaxRetries
    /\ LET rec == [runs[r] EXCEPT !.responses = Append(@, "error")]
       IN  Set(r, LoopTop(Log(rec, <<"ERROR:", "lookup failed">>)))
    /\ UNCHANGED <<list, listening>>

GetRejects(r) ==
    /\ listening
    /\ runs[r].pc = "get"
    /\ LET rec == [runs[r] EXCEPT !.responses = Append(@, "error")]
       IN  Set(r, AwaitDelay(Log(rec, <<"ERROR:", "lookup failed">>)))
    /\ UNCHANGED <<list, listening>>

\* the timer of delay(30000) fires: i++ and the loop test
DelayElapses(r) ==
    /\ listening
    /\ runs[r].pc = "delay"
    /\ Set(r, LoopTop([runs[r] EXCEPT !.i = @ + 1]))
    /\ UNCHANGED <<list, listening>>

\* axios.post resolves: the service has added the item; line 172
PostResolves(r) ==
    /\ listening
    /\ runs[r].pc = "post"
    /\ LET sent == runs[r].posts[Len(runs[r].posts)]
           had == IF sent.mod_url \in DOMAIN list THEN list[sent.mod_url] ELSE <<>>
       IN  list' = (sent.mod_url :> Append(had, Entry(sent.description))) @@ list
    /\ Set(r, [Log(runs[r], <<"INFO: Enrollment successful", ITEM>>)
                 EXCEPT !.pc = "done", !.result = "enrolled"])
    /\ UNCHANGED listening

\* axios.post rejects (non-2xx or network failure): lines 173-175
PostRejects(r) ==
    /\ listening
    /\ runs[r].pc = "post"
    /\ Set(r, Caught(runs[r], "submission failed"))
    /\ UNCHANGED <<list, listening>>

Step(r) ==
    \/ \E name \in ChatNames : GetChatResolves(r, name)
    \/ GetChatRejects(r)
    \/ \E data \in UNION {FetchBodies(l) : l \in StoredLists \cup {list[m] : m \in DOMAIN list}} :
          GetResolves(r, data)
    \/ GetRejects(r)
    \/ DelayElapses(r)
    \/ PostResolves(r)
    \/ PostRejects(r)

Next ==
    \E r \in Runs :
        \/ \E m \in Messages : OnMessage(r, m)
        \/ Step(r)

Spec == Init /\ [][Next]_vars

\* an HTTP call or a delay of run r completes
Settles(r) ==
    \/ \E data \in UNION {FetchBodies(l) : l \in StoredLists \cup {list[m] : m \in DOMAIN list}} :
          GetResolves(r, data)
    \/ GetRejects(r)
    \/ DelayElapses(r)
    \/ PostResolves(r)
    \/ PostRejects(r)

\* every HTTP call settles and every timer fires in the end
SpecFair == Spec /\ \A r \in Runs : WF_vars(Settles(r))

\* a single message, drawn from the extraction bodies as well
NextOne ==
    \/ \E m \in ExtractMessages : OnMessage(1, m)
    \/ Step(1)

SpecOne == Init /\ [][NextOne]_vars

(***************************************************************************)
(* Properties.                                                             *)
(***************************************************************************)
\* the latest lookup of rec resolved with a non-empty read_url
ReachedReady(rec) ==
    Len(rec.responses) > 0 /\ rec.responses[Len(rec.responses)] = "ready"

\* the JSON body carries an entry whose description is the configured item
HasConfiguredItem(data) ==
    /\ "items" \in DOMAIN data
    /\ \E k \in 1..Len(data["items"]) : data["items"][k].description = ITEM

EnrollmentErrorLogged(rec) ==
    \E k \in 1..Len(rec.log) : rec.log[k][1] = "ERROR: Enrollment failed:"

\* C1: when the lookups of a run answered N times without a read_url and
\* then once with one (N < maxRetries), the run has issued exactly N+1
\* lookups and exactly N delays, none after the ready answer, and the dedup
\* check ran on the body of that last answer.
C1_EmptiesThenReady ==
    \A r \in Runs :
        LET rec == runs[r]
            n == Len(rec.responses) - 1
        IN  (/\ ReachedReady(rec)
             /\ \A k \in 1..n : rec.responses[k] = "empty")
            => /\ n < MaxRetries
               /\ rec.gets = n + 1
               /\ rec.delays = n
               /\ rec.fetchRes = rec.lastData
               /\ rec.pc \in {"post", "done"}
               /\ (rec.result = "skipped") <=> HasConfiguredItem(rec.lastData)

C1_Witness ==
    \E r \in Runs :
        /\ ReachedReady(runs[r])
        /\ Len(runs[r].responses) = MaxRetries
        /\ \A k \in 1..(MaxRetries - 1) : runs[r].responses[k] = "empty"
        /\ runs[r].result = "enrolled"

\* C2: when each of the first maxRetries lookups answered without a
\* read_url or failed, the run has issued exactly maxRetries lookups and no
\* submission, and it ends by the exhaustion error reaching the catch.
C2_Exhaustion ==
    \A r \in Runs :
        LET rec == runs[r]
        IN  (/\ Len(rec.responses) >= MaxRetries
             /\ \A k \in 1..MaxRetries : rec.responses[k] \in {"empty", "error"})
            => /\ rec.gets = MaxRetries
               /\ rec.posts = <<>>
               /\ rec.pc \in {"delay", "done"}
               /\ rec.pc = "done" =>
                    /\ rec.result = "failed"
                    /\ rec.log[Len(rec.log)] =
                         <<"ERROR: Enrollment failed:",
                           "read_url not found after max retries">>

C2_Witness ==
    \E r \in Runs :
        /\ runs[r].pc = "done"
        /\ runs[r].result = "failed"
        /\ Len(runs[r].responses) = MaxRetries
        /\ runs[r].responses[1] = "error"
        /\ runs[r].responses[MaxRetries] = "empty"

\* C3: a run whose ready answer lists the configured item makes no
\* submission and ends as a skip, with no enrollment error logged.
C3_DedupNoOp ==
    \A r \in Runs :
        LET rec == runs[r]
        IN  (ReachedReady(rec) /\ HasConfiguredItem(rec.lastData))
            => /\ rec.posts = <<>>
               /\ rec.pc = "done"
               /\ rec.result = "skipped"
               /\ ~EnrollmentErrorLogged(rec)

C3_Witness ==
    \E r \in Runs :
        /\ ReachedReady(runs[r])
        /\ HasConfiguredItem(runs[r].lastData)
        /\ runs[r].lastData["items"][1].description # ITEM
        /\ runs[r].result = "skipped"

\* C4: a run whose ready answer does not list the configured item makes
\* exactly one submission, with description ITEM, the force flag false,
\* mod_url the extracted identifier and read_url that of the answer.
C4_SingleSubmission ==
    \A r \in Runs :
        LET rec == runs[r]
        IN  (ReachedReady(rec) /\ ~HasConfiguredItem(rec.lastData))
            => /\ Len(rec.posts) = 1
               /\ rec.posts[1].description = ITEM
               /\ rec.posts[1].force_creation_of_new_list = FALSE
               /\ rec.posts[1].mod_url = rec.modUrl
               /\ rec.posts[1].read_url = rec.lastData["read_url"]
               /\ ~Falsy(rec.modUrl)

C4_Witness ==
    \E r \in Runs :
        /\ ReachedReady(runs[r])
        /\ "items" \in DOMAIN runs[r].lastData
        /\ runs[r].lastData["items"] # <<>>
        /\ ~HasConfiguredItem(runs[r].lastData)
        /\ runs[r].result = "enrolled"

\* C5: no failure of a run leaves its handler uncaught, and none stops the
\* process from serving other messages.
C5_EveryFailureCaught ==
    /\ listening
    /\ \A r \in Runs : runs[r].result # "unhandled"

\* C6: the dedup check of a run reads only the answer that run holds: two
\* runs for the same identifier whose ready answers both lack the item both
\* submit, whatever the other has already sent.
C6_BothRunsSubmit ==
    \A r, s \in Runs :
        (/\ r # s
         /\ runs[r].modUrl = runs[s].modUrl
         /\ ReachedReady(runs[r]) /\ ~HasConfiguredItem(runs[r].lastData)
         /\ ReachedReady(runs[s]) /\ ~HasConfiguredItem(runs[s].lastData))
        => Len(runs[r].posts) = 1 /\ Len(runs[s].posts) = 1

\* both submissions took effect: the service holds the item twice
C6_Witness ==
    \E r, s \in Runs :
        /\ r # s
        /\ runs[r].modUrl = runs[s].modUrl
        /\ runs[r].result = "enrolled" /\ runs[s].result = "enrolled"
        /\ runs[r].modUrl \in DOMAIN list
        /\ Cardinality({k \in 1..Len(list[runs[r].modUrl]) :
                           list[runs[r].modUrl][k].description = ITEM}) = 2

\* C7: a message whose origin does not contain '@g.us' ends the handler at
\* once: msg.getChat is never invoked, nor a lookup, nor a submission.
C7_NonGroupIgnored ==
    \A r \in Runs :
        LET rec == runs[r]
        IN  (/\ rec.pc # "idle"
             /\ ~\E p \in 1..(Len(rec.msg.from) - 4) :
                    SubSeq(rec.msg.from, p, p + 4) = <<"@", "g", ".", "u", "s">>)
            => /\ rec.pc = "done"
               /\ rec.result = "return"
               /\ rec.getChatCalls = 0
               /\ rec.gets = 0
               /\ rec.posts = <<>>

C7_Witness ==
    \E r \in Runs :
        /\ runs[r].pc = "done"
        /\ runs[r].msg.from = PrivateFrom
        /\ Includes(runs[r].msg.body, prefix)

\* C8: a group message whose resolved chat name is not TARGET_CHAT yields
\* nothing, whatever its body: no lookup and no submission is issued.
C8_OtherChatIgnored ==
    \A r \in Runs :
        LET rec == runs[r]
        IN  (rec.chat # "" /\ rec.chat # "hali-saha")
            => /\ rec.pc = "done"
               /\ rec.result = "return"
               /\ rec.gets = 0
               /\ rec.posts = <<>>
               /\ rec.modUrl = UNDEFINED

C8_Witness ==
    \E r \in Runs :
        /\ runs[r].chat = "Hali-Saha"
        /\ runs[r].msg.body = LinkBody
        /\ runs[r].pc = "done"

\* the handler of rec has passed both filters and looked at the body
InScope(rec) == rec.pc \notin {"idle", "getChat"} /\ rec.chat = "hali-saha"

LinkPrefix ==
    <<"h","t","t","p","s",":","/","/","l","i","s","t","m","o","z",".",
      "c","o","m","/","#">>

\* the link prefix stands in body right after its first k characters
PrefixAfter(body, k) ==
    /\ k + Len(LinkPrefix) <= Len(body)
    /\ SubSeq(body, k + 1, k + Len(LinkPrefix)) = LinkPrefix

\* body reads: k characters, the prefix, an id of n >= 1 characters without
\* space or '#', a space, and at least one more character
LinkThenSpace(body, k, n) ==
    LET from == k + Len(LinkPrefix)
    IN  /\ PrefixAfter(body, k)
        /\ n >= 1
        /\ from + n + 1 < Len(body)
        /\ \A j \in (from + 1)..(from + n) : body[j] \notin {" ", "#"}
        /\ body[from + n + 1] = " "

IdOf(body, k, n) == SubSeq(body, k + Len(LinkPrefix) + 1, k + Len(LinkPrefix) + n)

\* C9, as claimed: whatever precedes the prefix and whatever id without
\* space or '#' follows it, the identifier is the id and the URL is the
\* prefix with the id.
C9_AnyIdAnyHead ==
    \A r \in Runs :
        LET rec == runs[r]
            body == rec.msg.body
        IN  InScope(rec) =>
              \A k \in 0..Len(body), n \in 1..Len(body) :
                 LinkThenSpace(body, k, n)
                 => /\ rec.modUrl = IdOf(body, k, n)
                    /\ rec.fullUrl = LinkPrefix \o IdOf(body, k, n)

\* C9, amended: the same for the first occurrence of the prefix and an id
\* that does not end in a tab or newline.
C9_FirstLinkIdExtracted ==
    \A r \in Runs :
        LET rec == runs[r]
            body == rec.msg.body
        IN  InScope(rec) =>
              \A k \in 0..Len(body), n \in 1..Len(body) :
                 (/\ LinkThenSpace(body, k, n)
                  /\ \A h \in 0..(k - 1) : ~PrefixAfter(body, h)
                  /\ body[k + Len(LinkPrefix) + n] \notin {"\t", "\n"})
                 => /\ rec.modUrl = IdOf(body, k, n)
                    /\ rec.fullUrl = LinkPrefix \o IdOf(body, k, n)
                    /\ rec.result # "return"
                    /\ rec.gets >= 1

C9_Witness ==
    \E r \in Runs :
        /\ InScope(runs[r])
        /\ runs[r].msg.body = ExampleBody
        /\ runs[r].modUrl = <<"a", "b", "c", "1", "2", "3">>
        /\ runs[r].gets >= 1

\* position (1-based) of the first character of body after position `from`
\* that lies in stops, or 0
FirstOf(body, from, stops) ==
    LET hits == {j \in (from + 1)..Len(body) : body[j] \in stops}
    IN  IF hits = {} THEN 0 ELSE CHOOSE j \in hits : \A h \in hits : j <= h

FirstPrefix(body) ==
    CHOOSE k \in 0..Len(body) :
        PrefixAfter(body, k) /\ \A h \in 0..(k - 1) : ~PrefixAfter(body, h)

\* the identifier holds no character of stops and is the start of the text
\* between the first prefix and the first character of stops after it
EndsAtFirst(rec, stops) ==
    LET body == rec.msg.body
        from == FirstPrefix(body) + Len(LinkPrefix)
        stop == FirstOf(body, from, stops)
    IN  (stop # 0 /\ stop < Len(body))
        => /\ rec.modUrl # UNDEFINED
           /\ \A j \in 1..Len(rec.modUrl) : rec.modUrl[j] \notin stops
           /\ Len(rec.modUrl) <= stop - 1 - from
           /\ rec.modUrl = SubSeq(body, from + 1, from + Len(rec.modUrl))

\* C10, as claimed: the link ends at the next whitespace character of any
\* kind, so the identifier holds no whitespace and nothing that follows it.
C10_EndsAtAnyWhitespace ==
    \A r \in Runs :
        (InScope(runs[r]) /\ \E k \in 0..Len(runs[r].msg.body) : PrefixAfter(runs[r].msg.body, k))
        => EndsAtFirst(runs[r], {" ", "\t", "\n"})

\* C10, amended: the link ends at the next space (or at the end of the
\* body): the identifier holds no space and nothing after that space, and a
\* tab inside the link does not end it.
C10_EndsAtFirstSpace ==
    \A r \in Runs :
        LET rec == runs[r]
            body == rec.msg.body
        IN  (InScope(rec) /\ \E k \in 0..Len(body) : PrefixAfter(body, k))
            => /\ EndsAtFirst(rec, {" "})
               /\ LET from == FirstPrefix(body) + Len(LinkPrefix)
                      sp == FirstOf(body, from, {" "})
                      end == IF sp = 0 THEN Len(body) ELSE sp - 1
                  IN  (/\ end > from
                       /\ body[end] \notin {" ", "\t", "\n"}
                       /\ \A j \in (from + 1)..end : body[j] # "#")
                      => rec.modUrl = SubSeq(body, from + 1, end)

C10_Witness ==
    \E r \in Runs :
        /\ InScope(runs[r])
        /\ runs[r].msg.body = LinkPrefix \o <<"a", "\t", "b", " ", "c">>
        /\ runs[r].modUrl = <<"a", "\t", "b">>
        /\ runs[r].gets >= 1

\* C11: when nothing follows the first occurrence of the prefix but a space
\* or the end of the body, the handler returns: no lookup and no submission
\* is issued.
C11_EmptyFragmentRejected ==
    \A r \in Runs :
        LET rec == runs[r]
            body == rec.msg.body
        IN  (/\ InScope(rec)
             /\ \E k \in 0..Len(body) : PrefixAfter(body, k)
             /\ LET after == FirstPrefix(body) + Len(LinkPrefix)
                IN  after = Len(body) \/ body[after + 1] = " ")
            => /\ rec.pc = "done"
               /\ rec.result = "return"
               /\ rec.gets = 0
               /\ rec.posts = <<>>
               /\ rec.log = <<>>

C11_Witness ==
    \E r \in Runs :
        /\ InScope(runs[r])
        /\ runs[r].msg.body = <<"x", " ">> \o LinkPrefix
        /\ runs[r].result = "return"

\* the submission of rec was answered with a failure
SubmissionFailed(rec) == rec.posts # <<>> /\ rec.result = "failed"

\* C12: a run issues at most one submission; when that submission fails the
\* run is over, with the failure logged, and issues no lookup and no
\* submission afterwards.
C12_FailedSubmissionNotRetried ==
    /\ [](\A r \in Runs :
            /\ Len(runs[r].posts) <= 1
            /\ SubmissionFailed(runs[r]) =>
                 /\ runs[r].pc = "done"
                 /\ runs[r].log[Len(runs[r].log)][1] = "ERROR: Enrollment failed:")
    /\ [][\A r \in Runs :
            (runs[r].pc = "post" /\ runs'[r].pc # "post") =>
                /\ runs'[r].pc = "done"
                /\ runs'[r].gets = runs[r].gets
                /\ runs'[r].posts = runs[r].posts]_vars
    /\ [][\A r \in Runs : runs[r].pc = "done" => runs'[r] = runs[r]]_vars

C12_Witness ==
    \E r \in Runs :
        /\ SubmissionFailed(runs[r])
        /\ Len(runs[r].responses) > 1
        /\ runs[r].pc = "done"

\* how many of the lookups of rec answered without a read_url or failed
NotReadyCount(rec) ==
    Cardinality({k \in 1..Len(rec.responses) : rec.responses[k] \in {"empty", "error"}})

\* C13: a lookup that answers without a read_url and a lookup that fails
\* count alike: each takes one attempt of the one bound and is followed by
\* one delay, so no mix of the two makes a run issue more than maxRetries
\* lookups.
C13_OneBoundForBothKinds ==
    \A r \in Runs :
        LET rec == runs[r]
            waiting == IF rec.pc = "delay" THEN 1 ELSE 0
            asking == IF rec.pc = "get" THEN 1 ELSE 0
        IN  /\ rec.gets <= MaxRetries
            /\ rec.gets = Len(rec.responses) + asking
            /\ rec.delays = NotReadyCount(rec)
            /\ rec.i = NotReadyCount(rec) - waiting
            /\ rec.pc = "delay" =>
                 rec.responses[Len(rec.responses)] \in {"empty", "error"}

C13_Witness ==
    \E r \in Runs :
        /\ Len(runs[r].responses) = 2
        /\ runs[r].responses[1] = "empty"
        /\ runs[r].responses[2] = "error"
        /\ runs[r].pc = "get"
        /\ runs[r].gets = MaxRetries

\* the run of rec has passed the filters and is polling or submitting
Started(rec) == rec.pc \in {"get", "delay", "post"}

\* success, dedup no-op, lookup exhaustion or submission failure
Terminal(rec) == rec.pc = "done" /\ rec.result \in {"enrolled", "skipped", "failed"}

\* C14: every run started for a qualifying message reaches one of its
\* terminal outcomes, given that every call and every delay completes.
C14_EveryRunTerminates ==
    \A r \in Runs : Started(runs[r]) ~> Terminal(runs[r])

\* C15: runs share no mutable state: a step that changes one run leaves the
\* attempt counter, the identifier, the held response, the payload and all
\* else of every other run as it was, and what a run submits comes from
\* its own message and its own lookup.
C15_RunsAreIndependent ==
    /\ [][\A r, s \in Runs :
            (r # s /\ runs'[r] # runs[r]) => runs'[s] = runs[s]]_vars
    /\ [](\A r \in Runs :
            /\ runs[r].i <= runs[r].gets
            /\ \A k \in 1..Len(runs[r].posts) :
                  /\ runs[r].posts[k].mod_url = runs[r].modUrl
                  /\ runs[r].posts[k].read_url = runs[r].lastData["read_url"])

C15_Witness ==
    \E r, s \in Runs :
        /\ r # s
        /\ runs[r].pc = "get" /\ runs[r].i = 2
        /\ runs[s].pc = "post" /\ runs[s].i = 0
        /\ runs[s].posts[1].read_url = <<"r", "2">>

\* C16: a ready answer without an items field counts as an empty list:
\* the run makes exactly one submission, and the only failure it can end
\* in is that of the submission itself.
C16_MissingItemsIsEmptyList ==
    \A r \in Runs :
        LET rec == runs[r]
        IN  (ReachedReady(rec) /\ "items" \notin DOMAIN rec.lastData)
            => /\ Len(rec.posts) = 1
               /\ rec.pc \in {"post", "done"}
               /\ rec.result \in {"pending", "enrolled", "failed"}
               /\ rec.result = "failed" =>
                    rec.log[Len(rec.log)] =
                        <<"ERROR: Enrollment failed:", "submission failed">>

C16_Witness ==
    \E r \in Runs :
        /\ ReachedReady(runs[r])
        /\ DOMAIN runs[r].lastData = {"read_url"}
        /\ runs[r].result = "enrolled"

\* the prefix occurs in body more than once
SeveralLinks(body) ==
    \E k, h \in 0..Len(body) : k < h /\ PrefixAfter(body, k) /\ PrefixAfter(body, h)

\* C17: of several links in a body only the first counts: the one run of
\* the message polls and submits for the identifier of the first link, and
\* when nothing follows the first prefix the message is dropped although a
\* later link carries an identifier.
C17_OnlyFirstLinkCounts ==
    \A r \in Runs :
        LET rec == runs[r]
            body == rec.msg.body
        IN  (InScope(rec) /\ SeveralLinks(body)) =>
              LET k == FirstPrefix(body)
                  after == k + Len(LinkPrefix)
              IN  /\ \A n \in 1..Len(body) :
                        (LinkThenSpace(body, k, n) /\ body[after + n] \notin {"\t", "\n"})
                        => /\ rec.modUrl = IdOf(body, k, n)
                           /\ rec.gets >= 1
                           /\ Len(rec.posts) <= 1
                           /\ \A j \in 1..Len(rec.posts) :
                                 rec.posts[j].mod_url = IdOf(body, k, n)
                  /\ body[after + 1] = " "
                        => /\ rec.result = "return"
                           /\ rec.gets = 0
                           /\ rec.posts = <<>>

C17_Witness ==
    \E r \in Runs :
        /\ InScope(runs[r])
        /\ runs[r].msg.body = LinkPrefix \o <<"b", " ">> \o LinkPrefix \o <<"a">>
        /\ runs[r].result = "enrolled"
        /\ runs[r].posts[1].mod_url = <<"b">>

\* waitForValidFetch of rec has thrown after its last attempt
Exhausted(rec) ==
    /\ rec.result = "failed"
    /\ rec.posts = <<>>
    /\ rec.log[Len(rec.log)] =
         <<"ERROR: Enrollment failed:", "read_url not found after max retries">>

\* C18: a run submits only after one of its own lookups has answered with
\* a non-empty read_url, and once a lookup has done so, or the lookups are
\* exhausted, the run issues no further lookup and no further delay.
C18_ReadyBeforeSubmitThenNoPolling ==
    /\ [](\A r \in Runs :
            runs[r].posts # <<>> =>
                /\ ReachedReady(runs[r])
                /\ runs[r].posts[1].read_url # <<>>
                /\ runs[r].posts[1].read_url # <<"undefined">>)
    /\ [][\A r \in Runs :
            (ReachedReady(runs[r]) \/ Exhausted(runs[r])) =>
                /\ runs'[r].gets = runs[r].gets
                /\ runs'[r].delays = runs[r].delays
                /\ runs'[r].responses = runs[r].responses]_vars

C18_Witness ==
    \E r \in Runs :
        /\ ReachedReady(runs[r])
        /\ runs[r].delays = 1
        /\ runs[r].responses[1] = "error"
        /\ runs[r].pc = "post"

\* C19: the delay also follows the last failed lookup: once maxRetries
\* lookups have answered without a read_url or failed, maxRetries delays
\* have been issued, and the exhaustion error comes only when the last of
\* them is over.
C19_DelayAfterLastAttempt ==
    \A r \in Runs :
        LET rec == runs[r]
        IN  /\ (Len(rec.responses) = MaxRetries /\ ~ReachedReady(rec))
                => /\ rec.delays = MaxRetries
                   /\ rec.pc = "delay" \/ Exhausted(rec)
                   /\ rec.pc = "delay" => rec.result = "pending" /\ rec.i = MaxRetries - 1
            /\ Exhausted(rec)
                => /\ rec.delays = MaxRetries
                   /\ rec.gets = MaxRetries
                   /\ rec.i = MaxRetries

C19_Witness ==
    \E r \in Runs :
        /\ Exhausted(runs[r])
        /\ runs[r].delays = MaxRetries
        /\ runs[r].responses[MaxRetries] = "error"

====
